---- MODULE Spec2Model ----
(***************************************************************************)
(* esbuild-plugin-single-modules (src/index.ts): one build invocation is   *)
(* turned into a chain of build invocations, one entry point per module.   *)
(*                                                                         *)
(* Strings that are paths are modelled structurally.  A path string is the *)
(* sequence of its "/"-separated segments (what path.split("/") returns),  *)
(* and a segment is the sequence of its "."-separated parts:               *)
(*     "./src/index.js"  is  << <<"","">>, <<"src">>, <<"index","js">> >>   *)
(*     ""                is  << <<"">> >>                                   *)
(*     "/"               is  << <<"">>, <<"">> >>                           *)
(* so prefixes, extensions and segment filters are computed, not looked up.*)
(***************************************************************************)
EXTENDS Integers, Sequences, FiniteSets, TLC

(***************************************************************************)
(* Bounds of the model.                                                    *)
(***************************************************************************)
\* largest numLevelsInputPathToDrop tried (the smallest is -1)
MaxDrop == 2
\* cap on the number of nested build invocations of one session
MaxPasses == 5
\* number of top-level esbuild.build calls made with the one plugin object
MaxBuilds == 2
\* longest path (in segments after the root) handed to reducePathLeft alone
MaxSegments == 3

(***************************************************************************)
(* String helpers.                                                         *)
(***************************************************************************)
\* the segment ""
EmptySeg == <<"">>
\* the segment "."
Dot == <<"", "">>
\* the segment ".."
DotDot == <<"", "", "">>
\* the string ""
EmptyStr == <<EmptySeg>>
\* the string "/"
SlashStr == <<EmptySeg, EmptySeg>>
\* `undefined`: no string is the empty sequence of segments
Undefined == <<>>

\* a segment without a dot, and a segment "stem.ext"
Nm(s) == <<s>>
Fl(s, e) == <<s, e>>

Front(s) == SubSeq(s, 1, Len(s) - 1)
Last(s) == s[Len(s)]

\* path.startsWith(dirsep)
startsWithSep(path) == Len(path) >= 2 /\ path[1] = EmptySeg
\* path.startsWith(".")
startsWithDot(path) == Len(path[1]) >= 2 /\ path[1][1] = ""
\* path.endsWith("/")
endsWithSep(path) == Len(path) >= 2 /\ Last(path) = EmptySeg

\* path.split(dirsep): the array of segments
split(path) == path
\* segments.join(dirsep): the empty array joins to ""
joinSep(segments) == IF segments = <<>> THEN EmptyStr ELSE segments

\* Array.prototype.filter with the (0-based) index as its only criterion:
\* kept is the set of the indexes the callback returns true for
FilterIndex(segments, kept) ==
  LET F[i \in 0..Len(segments)] ==
        IF i = 0 THEN <<>>
        ELSE IF (i - 1) \in kept THEN Append(F[i - 1], segments[i]) ELSE F[i - 1]
  IN F[Len(segments)]

(***************************************************************************)
(* node:path (posix).                                                      *)
(***************************************************************************)
\* normalizeString: resolves "", "." and ".." segments
normalizeString(segments, allowAboveRoot) ==
  LET N[i \in 0..Len(segments)] ==
        IF i = 0 THEN <<>>
        ELSE LET res == N[i - 1]
                 s == segments[i]
             IN IF s = EmptySeg \/ s = Dot THEN res
                ELSE IF s = DotDot
                  THEN IF res # <<>> /\ Last(res) # DotDot THEN Front(res)
                       ELSE IF allowAboveRoot THEN Append(res, DotDot)
                       ELSE res
                ELSE Append(res, s)
  IN N[Len(segments)]

\* normalize, after normalizeString: the "." of an empty result, the trailing
\* separator and the leading one
normalizeTail(p0, isAbsolute, trailingSeparator) ==
  LET p1 == IF p0 = <<>> /\ ~isAbsolute THEN <<Dot>> ELSE p0
      p2 == IF p1 # <<>> /\ trailingSeparator THEN Append(p1, EmptySeg) ELSE p1
  IN IF isAbsolute THEN <<EmptySeg>> \o joinSep(p2) ELSE joinSep(p2)

\* path.normalize(path)
normalize(path) ==
  IF path = EmptyStr THEN <<Dot>>
  ELSE normalizeTail(normalizeString(path, ~startsWithSep(path)),
                     startsWithSep(path), endsWithSep(path))

\* path.join(a, b): the non-empty arguments joined by "/", then normalized
join(a, b) ==
  IF a = EmptyStr /\ b = EmptyStr THEN <<Dot>>
  ELSE normalize(IF a = EmptyStr THEN b ELSE IF b = EmptyStr THEN a ELSE a \o b)

\* the path without its trailing separators
StripTrailingSep(path) ==
  LET S[i \in 0..Len(path)] ==
        IF i = 0 THEN path
        ELSE IF Len(S[i - 1]) > 1 /\ Last(S[i - 1]) = EmptySeg
          THEN Front(S[i - 1]) ELSE S[i - 1]
  IN S[Len(path)]

\* dirname of a non-empty path whose trailing separators are stripped
dirnameOf(stripped, hasRoot) ==
  IF Len(stripped) = 1 THEN (IF hasRoot THEN SlashStr ELSE <<Dot>>)
  ELSE IF Front(stripped) = EmptyStr THEN SlashStr
  ELSE Front(stripped)

\* path.dirname(path)
dirname(path) ==
  IF path = EmptyStr THEN <<Dot>>
  ELSE dirnameOf(StripTrailingSep(path), startsWithSep(path))

\* path.resolve(path) against the working directory cwd: the segments below "/"
resolveSegments(cwd, path) ==
  IF startsWithSep(path) THEN normalizeString(path, FALSE)
  ELSE normalizeString(cwd \o path, FALSE)

\* length of the longest common prefix of two segment arrays
CommonPrefix(a, b) ==
  LET C[i \in 0..Len(a)] ==
        IF i = 0 THEN 0
        ELSE IF C[i - 1] = i - 1 /\ i <= Len(b) /\ a[i] = b[i] THEN i
        ELSE C[i - 1]
  IN C[Len(a)]

\* the ".." steps out of f, one per segment below the common prefix of length k
upSteps(f, k) == [i \in 1..(Len(f) - k) |-> DotDot]

\* relative, on the resolved segment arrays
relativeSegments(f, t, k) ==
  IF f = t THEN EmptyStr ELSE joinSep(upSteps(f, k) \o SubSeq(t, k + 1, Len(t)))

relativeResolved(f, t) == relativeSegments(f, t, CommonPrefix(f, t))

\* path.relative(from, to)
relative(cwd, from, to) ==
  IF from = to THEN EmptyStr
  ELSE relativeResolved(resolveSegments(cwd, from), resolveSegments(cwd, to))

\* the name of a base name: it loses what follows its last dot, unless that
\* dot is its first character or the base name is ".."
nameOf(base) ==
  IF Len(base) = 1 THEN base
  ELSE IF Len(base) = 2 /\ base[1] = "" THEN base
  ELSE IF base = DotDot THEN base
  ELSE Front(base)

\* path.parse(path).name: the base name without its extension
parseName(path) == nameOf(Last(StripTrailingSep(path)))

(***************************************************************************)
(* The plugin's pure parts.                                                *)
(***************************************************************************)
NoError == ""
NegativeError == "numSegments must not be negative!"
KindError == "Unknown import path type"
RootError == "Project root path couldn't be determined!"
ResolveError == "Could not resolve"

\* lines 46-55: the segments of the path filtered by their index
dropSegments(path, numSegments) ==
  IF startsWithSep(path) \/ startsWithDot(path)
    THEN [err |-> NoError,
          value |-> joinSep(FilterIndex(split(path),
                       {index \in 0..Len(split(path)) :
                          index = 0 \/ index > numSegments}))]
    ELSE [err |-> NoError,
          value |-> joinSep(FilterIndex(split(path),
                       {index \in 0..Len(split(path)) :
                          index > numSegments - 1}))]

\* (mutant) a negative count is taken as 0
reducePathLeftLenient(path, numSegments) ==
  IF numSegments <= 0 THEN [err |-> NoError, value |-> path]
  ELSE dropSegments(path, numSegments)

\* reducePathLeft(path, numSegments): the path, or the error thrown
reducePathLeft(path, numSegments) ==
  IF numSegments = 0 THEN [err |-> NoError, value |-> path]
  ELSE IF numSegments < 0 THEN [err |-> NegativeError, value |-> Undefined]
  ELSE dropSegments(path, numSegments)

\* an entry point given as a string, and one given as { in, out }
StringEntry(input) == [isString |-> TRUE, in |-> input, out |-> Undefined]
FileSpec(input, output) == [isString |-> FALSE, in |-> input, out |-> output]

\* { in: input, out: join(relInputDir, parse(input).name) }, or the error
\* reducePathLeft threw
makeFileSpec(input, relInputDir) ==
  IF relInputDir.err # NoError
    THEN [err |-> relInputDir.err, spec |-> FileSpec(input, Undefined)]
    ELSE [err |-> NoError,
          spec |-> FileSpec(input, join(relInputDir.value, <<parseName(input)>>))]

\* setup, the initial entry point (lines 84-92)
entryFileSpec(input, numLevels) ==
  makeFileSpec(input, reducePathLeft(dirname(input), numLevels))

\* "./" + relInput
dotSlash(relInput) == <<Dot>> \o relInput

\* onResolve, "compute input and output names" (lines 139-146)
relFileSpec(relInput, numLevels) ==
  makeFileSpec(dotSlash(relInput), reducePathLeft(dirname(relInput), numLevels))

importFileSpec(cwd, rootDir, file, numLevels) ==
  relFileSpec(relative(cwd, rootDir, file), numLevels)

\* (mutant) every kind is processed as an import
isSupportedKindLax(kind) == TRUE

\* the kinds onResolve processes after the entry-point branch
isSupportedKind(kind) == kind = "import-statement" \/ kind = "dynamic-import"

\* seenFiles.add(file)
seenFilesAdd(seen, file) == seen \cup {file}

\* the key of rewrittenImports: `${importer}|${path}`
rewriteKey(importer, path) == <<importer, path>>

\* (mutant) the reverse lookup finds nothing
lookupPathAsWritten(transform, rewritten, args) == args.path

\* lines 120-126: the path the identity is computed from
lookupPath(transform, rewritten, args) ==
  IF transform /\ rewriteKey(args.importer, args.path) \in DOMAIN rewritten
    THEN rewritten[rewriteKey(args.importer, args.path)]
    ELSE args.path

\* (mutant) a file seen before is skipped without an answer
importResultSkipsSeen(alreadySeen) ==
  IF alreadySeen THEN "undefined" ELSE "external"

\* the value onResolve returns for a processed import
importResult(alreadySeen) == "external"

\* the outcome of one onResolve call: what it returns ("undefined",
\* "external") or "throw", and the session state it leaves
Outcome(result, error, file, fresh, seen, rootDir, specs) ==
  [result |-> result, error |-> error, file |-> file, fresh |-> fresh,
   seenFiles |-> seen, root |-> rootDir, filespecs |-> specs]

\* lines 135-149: the file was not in seenFiles and has been added
scheduleFile(file, seen, rootDir, specs, fs) ==
  IF rootDir = Undefined
    THEN Outcome("throw", RootError, file, TRUE, seen, rootDir, specs)
  ELSE IF fs.err # NoError
    THEN Outcome("throw", fs.err, file, TRUE, seen, rootDir, specs)
  ELSE Outcome(importResult(FALSE), NoError, file, TRUE, seen, rootDir,
               Append(specs, fs.spec))

\* (mutant) the membership test is lost: every resolution schedules the file
processFileNoSkip(file, seen, rootDir, specs, numLevels, cwd) ==
  scheduleFile(file, seenFilesAdd(seen, file), rootDir, specs,
               IF rootDir = Undefined THEN [err |-> NoError]
               ELSE importFileSpec(cwd, rootDir, file, numLevels))

\* lines 131-153: "only process (build) file once, then skip"
processFile(file, seen, rootDir, specs, numLevels, cwd) ==
  IF file \in seen
    THEN Outcome(importResult(TRUE), NoError, file, FALSE, seen, rootDir, specs)
    ELSE scheduleFile(file, seenFilesAdd(seen, file), rootDir, specs,
                      IF rootDir = Undefined THEN [err |-> NoError]
                      ELSE importFileSpec(cwd, rootDir, file, numLevels))

\* (mutant) the test of lines 103-105 inverted
captureRootInverted(rootDir, resolveDir) ==
  IF rootDir # Undefined THEN resolveDir ELSE rootDir

\* lines 103-105: `if (root === undefined) root = args.resolveDir`
captureRoot(rootDir, resolveDir) ==
  IF rootDir = Undefined THEN resolveDir ELSE rootDir

\* The onResolve callback on the session state it closes over.
onResolve(args, seen, rootDir, specs, rewritten, transform, numLevels, cwd) ==
  IF args.kind = "entry-point"
    THEN Outcome("undefined", NoError, Undefined, FALSE, seen,
                 captureRoot(rootDir, args.resolveDir), specs)
  ELSE IF ~isSupportedKind(args.kind)
    THEN Outcome("throw", KindError, Undefined, FALSE, seen, rootDir, specs)
  ELSE processFile(join(args.resolveDir, lookupPath(transform, rewritten, args)),
                   seen, rootDir, specs, numLevels, cwd)

(***************************************************************************)
(* The host (esbuild) and the project it builds.                           *)
(***************************************************************************)
\* the working directory of the build, "/proj": resolveDir of entry points
Cwd == <<EmptySeg, Nm("proj")>>
SrcDir == Cwd \o <<Nm("src")>>
IndexJs == SrcDir \o <<Fl("index", "js")>>
UtilJs == SrcDir \o <<Fl("util", "js")>>
UtilMjs == SrcDir \o <<Fl("util", "mjs")>>
HelpersJs == SrcDir \o <<Nm("lib"), Fl("helpers", "js")>>

Import(kind, path) == [kind |-> kind, path |-> path]

\* index imports ./util and ./lib/helpers (specifiers without extension)
ProjectPlain ==
  (IndexJs :> {Import("import-statement", <<Dot, Nm("util")>>),
               Import("import-statement", <<Dot, Nm("lib"), Nm("helpers")>>)})
  @@ (UtilJs :> {}) @@ (HelpersJs :> {})

\* a shared import and an import cycle that leads back to the entry point
ProjectCycle ==
  (IndexJs :> {Import("import-statement", <<Dot, Fl("util", "js")>>),
               Import("dynamic-import", <<Dot, Nm("lib"), Fl("helpers", "js")>>)})
  @@ (UtilJs :> {Import("import-statement", <<Dot, Nm("lib"), Fl("helpers", "js")>>)})
  @@ (HelpersJs :> {Import("import-statement", <<DotDot, Fl("index", "js")>>)})

\* one module imported statically and dynamically by one file, and a require()
ProjectRequire ==
  (IndexJs :> {Import("import-statement", <<Dot, Fl("util", "js")>>),
               Import("dynamic-import", <<Dot, Fl("util", "js")>>),
               Import("require-call", <<Dot, Nm("lib"), Fl("helpers", "js")>>)})
  @@ (UtilJs :> {}) @@ (HelpersJs :> {})

\* util.js and util.mjs side by side, both imported by index
ProjectTwins ==
  (IndexJs :> {Import("import-statement", <<Dot, Fl("util", "js")>>),
               Import("import-statement", <<Dot, Fl("util", "mjs")>>)})
  @@ (UtilJs :> {}) @@ (UtilMjs :> {})

Projects == {ProjectPlain, ProjectCycle, ProjectRequire, ProjectTwins}

\* the entry point as the build configuration writes it
EntryInputs ==
  { <<Dot, Nm("src"), Fl("index", "js")>>,          \* "./src/index.js"
    <<Dot, Nm("src"), Nm("index")>>,                \* "./src/index"
    IndexJs }                                       \* "/proj/src/index.js"

\* entryPoints of the build configuration: one string, or one { in, out }
EntryPointLists ==
  {<<StringEntry(e)>> : e \in EntryInputs}
    \cup {<<FileSpec(<<Dot, Nm("src"), Fl("index", "js")>>, <<Nm("index")>>)>>}

\* filter: /.*/ (the default) and /^\.\.?\//
Filters == {"all", "dotRelative"}
filterMatches(flt, path) ==
  flt = "all" \/ (Len(path) >= 2 /\ path[1] \in {Dot, DotDot})

\* outExtension[".js"] of the build options; "" when the key is absent
OutExtensions == {"", "mjs"}

\* the file a path names: as written, or with ".js" added (the host's probing)
addExtension(path, ext) == Front(path) \o <<Append(Last(path), ext)>>
probe(files, abs) ==
  IF abs \in files THEN abs
  ELSE IF addExtension(abs, "js") \in files THEN addExtension(abs, "js")
  ELSE Undefined
hostFile(files, resolveDir, path) ==
  probe(files, IF startsWithSep(path) THEN normalize(path)
               ELSE join(resolveDir, path))

(***************************************************************************)
(* State.                                                                  *)
(***************************************************************************)
VARIABLES
  project,                    \* the files of the project and their imports
  initialOptions,             \* the options of the top-level esbuild.build call
  filter,                     \* plugin option
  numLevelsInputPathToDrop,   \* plugin option (?? 0 applied)
  transformImportExtensions,  \* plugin option
  seenFiles,                  \* closure of singleModulesPlugin: the registry
  root,                       \* closure of singleModulesPlugin: the root
  session,                    \* the top-level build call
  builds,                     \* top-level build calls made with the plugin object
  passes,                     \* the build invocations, outermost first
  history,                    \* the FileSpecs of each top-level call that returned
  last                        \* the last hook call and what it returned

config == <<project, initialOptions, filter, numLevelsInputPathToDrop,
            transformImportExtensions>>
vars == <<project, initialOptions, filter, numLevelsInputPathToDrop,
          transformImportExtensions, seenFiles, root, session, builds, passes,
          history, last>>

NoCall == [hook |-> "none", pass |-> 0, args |-> Undefined, result |-> "undefined",
           error |-> NoError, file |-> Undefined, fresh |-> FALSE]

Init ==
  /\ project \in Projects
  /\ initialOptions \in [entryPoints : EntryPointLists,
                         outExtension : OutExtensions,
                         outdir : {"dist"},
                         bundle : {TRUE}]
  /\ filter \in Filters
  /\ numLevelsInputPathToDrop \in -1..MaxDrop
  /\ transformImportExtensions \in BOOLEAN
  /\ seenFiles = {}
  /\ root = Undefined
  /\ session = "constructed"
  /\ builds = 0
  /\ passes = <<>>
  /\ history = <<>>
  /\ last = NoCall

(***************************************************************************)
(* setup(build): one call per build invocation.                            *)
(***************************************************************************)
\* the resolution requests the host issues for the entry points
entryRequests(entryPoints) ==
  {[kind |-> "entry-point", path |-> entryPoints[i].in, resolveDir |-> Cwd,
    importer |-> EmptyStr] : i \in 1..Len(entryPoints)}

\* whether setup registers the onLoad callback (lines 168-173)
registersOnLoad(transform, options) ==
  transform /\ options.outExtension # "" /\ options.outExtension # "js"

\* The invocation as setup leaves it: `options` is the clone of the incoming
\* options, entryPoints what build.initialOptions.entryPoints holds afterwards,
\* filespecs and rewrittenImports the fresh locals of this call.
newPass(incoming, entries, transform) ==
  [options |-> incoming,
   entryPoints |-> entries,
   filespecs |-> <<>>,
   rewrittenImports |-> <<>>,
   onLoad |-> registersOnLoad(transform, incoming),
   pending |-> entryRequests(entries),
   toLoad |-> {},
   loaded |-> {},
   discovered |-> {},
   resolved |-> {},
   errors |-> {},
   status |-> "running"]

\* lines 77-81: exactly one entry point, given as a string
isSingleString(entryPoints) == Len(entryPoints) = 1 /\ entryPoints[1].isString

setupSingle(incoming, first, transform) ==
  [err |-> first.err, pass |-> newPass(incoming, <<first.spec>>, transform)]

setup(incoming, transform, numLevels) ==
  IF isSingleString(incoming.entryPoints)
    THEN setupSingle(incoming,
                     entryFileSpec(incoming.entryPoints[1].in, numLevels), transform)
    ELSE [err |-> NoError,
          pass |-> newPass(incoming, incoming.entryPoints, transform)]

\* esbuild.build(initialOptions): a top-level invocation; the first one, or a
\* further one with the same options and plugin object after the last returned
Build ==
  /\ \/ session = "constructed"
     \/ session \in {"resolved", "rejected"} /\ builds < MaxBuilds
  /\ builds' = builds + 1
  /\ \E s \in {setup(initialOptions, transformImportExtensions,
                     numLevelsInputPathToDrop)} :
        /\ session' = IF s.err # NoError THEN "rejected" ELSE "building"
        /\ passes' = IF s.err # NoError THEN <<>> ELSE <<s.pass>>
        /\ history' = IF s.err # NoError THEN Append(history, {}) ELSE history
        /\ last' = [NoCall EXCEPT !.hook = "setup", !.pass = 1,
                                  !.result = IF s.err # NoError THEN "throw"
                                             ELSE "undefined",
                                  !.error = s.err]
  /\ UNCHANGED <<config, seenFiles, root>>

(***************************************************************************)
(* Resolution.                                                             *)
(***************************************************************************)
\* the host's own resolution of a request no plugin answered: the file is
\* bundled into this invocation, so it is loaded (once) by this invocation
hostQueue(pass, file) ==
  IF file = Undefined THEN [pass EXCEPT !.errors = @ \cup {ResolveError}]
  ELSE IF file \in pass.loaded \cup pass.toLoad THEN pass
  ELSE [pass EXCEPT !.toLoad = @ \cup {file}]

hostDefault(files, pass, req) ==
  hostQueue(pass, hostFile(files, req.resolveDir, req.path))

\* the invocation after the callback answered req with outcome o
answered(pass, req, o) ==
  [pass EXCEPT !.pending = @ \ {req},
               !.filespecs = o.filespecs,
               !.discovered = IF o.fresh /\ o.result = "external"
                                THEN @ \cup {[file |-> o.file,
                                               importer |-> req.importer]}
                                ELSE @,
               !.resolved = IF o.file # Undefined
                              THEN @ \cup {[file |-> o.file,
                                             importer |-> req.importer]}
                              ELSE @,
               !.errors = IF o.result = "throw" THEN @ \cup {o.error} ELSE @]

\* build.onResolve({ filter }, ...): the callback runs to completion
OnResolve(p, req) ==
  /\ passes[p].status = "running"
  /\ req \in passes[p].pending
  /\ filterMatches(filter, req.path)
  /\ \E o \in {onResolve(req, seenFiles, root, passes[p].filespecs,
                         passes[p].rewrittenImports, transformImportExtensions,
                         numLevelsInputPathToDrop, Cwd)} :
        /\ seenFiles' = o.seenFiles
        /\ root' = o.root
        /\ passes' = [passes EXCEPT ![p] =
                        IF o.result = "undefined"
                          THEN hostDefault(DOMAIN project, answered(@, req, o), req)
                          ELSE answered(@, req, o)]
        /\ last' = [hook |-> "onResolve", pass |-> p, args |-> req,
                    result |-> o.result, error |-> o.error, file |-> o.file,
                    fresh |-> o.fresh]
  /\ UNCHANGED <<config, session, builds, history>>

\* a request the filter does not match never reaches the callback
HostResolve(p, req) ==
  /\ passes[p].status = "running"
  /\ req \in passes[p].pending
  /\ ~filterMatches(filter, req.path)
  /\ passes' = [passes EXCEPT ![p] =
                  hostDefault(DOMAIN project, [@ EXCEPT !.pending = @ \ {req}], req)]
  /\ last' = [NoCall EXCEPT !.hook = "hostResolve", !.pass = p, !.args = req]
  /\ UNCHANGED <<config, seenFiles, root, session, builds, history>>

(***************************************************************************)
(* Load.                                                                   *)
(***************************************************************************)
\* a segment made of dots only ("." or "..")
isDots(seg) == Len(seg) >= 2 /\ \A i \in 1..Len(seg) : seg[i] = ""

\* IMPORT_PATTERN on one import of the file: a static import or export-from
\* whose specifier is (dots "/")+ something ".js"
matchesImportPattern(imp) ==
  /\ imp.kind = "import-statement"
  /\ Len(imp.path) >= 2
  /\ isDots(imp.path[1])
  /\ Len(Last(imp.path)) >= 2
  /\ Last(Last(imp.path)) = "js"
  /\ ~(Len(imp.path) = 2 /\ imp.path[2] = <<"", "js">>)

\* importFile.replace(/\.js$/, destExt)
replaceJs(path, destExt) == Front(path) \o <<Append(Front(Last(path)), destExt)>>

\* parse(args.path).ext is one of .ts .mts .cts .tsx
loaderOf(file) ==
  IF Len(Last(file)) >= 2 /\ Last(Last(file)) \in {"ts", "mts", "cts", "tsx"}
    THEN "ts" ELSE "js"

\* the original specifier recorded under key k of rewrittenImports
originalOf(file, matches, destExt, k) ==
  (CHOOSE i \in matches : rewriteKey(file, replaceJs(i.path, destExt)) = k).path

\* (mutant) the map is made anew by every load
recordRewritesAnew(file, matches, rewritten, destExt, keys) ==
  [k \in keys |-> originalOf(file, matches, destExt, k)]

\* the map after rewrittenImports.set for every match
recordRewrites(file, matches, rewritten, destExt, keys) ==
  [k \in DOMAIN rewritten \cup keys |->
     IF k \in keys THEN originalOf(file, matches, destExt, k) ELSE rewritten[k]]

rewriteMatches(file, contents, matches, rewritten, destExt) ==
  [contents |-> (contents \ matches)
                  \cup {[i EXCEPT !.path = replaceJs(i.path, destExt)] : i \in matches},
   rewrittenImports |->
     recordRewrites(file, matches, rewritten, destExt,
                    {rewriteKey(file, replaceJs(i.path, destExt)) : i \in matches}),
   loader |-> loaderOf(file)]

\* The onLoad callback: the imports of the contents it returns, and the
\* rewrittenImports map it leaves.
onLoad(file, contents, rewritten, destExt) ==
  rewriteMatches(file, contents, {i \in contents : matchesImportPattern(i)},
                 rewritten, destExt)

\* the resolution requests the host issues for the imports of a loaded file
scanImports(file, contents) ==
  {[kind |-> i.kind, path |-> i.path, resolveDir |-> dirname(file),
    importer |-> file] : i \in contents}

\* build.onLoad({ filter }, ...), registered only when extensions are rewritten
OnLoad(p, file) ==
  /\ passes[p].status = "running"
  /\ file \in passes[p].toLoad
  /\ passes[p].onLoad /\ filterMatches(filter, file)
  /\ \E o \in {onLoad(file, project[file], passes[p].rewrittenImports,
                      passes[p].options.outExtension)} :
        /\ passes' = [passes EXCEPT ![p] =
                        [@ EXCEPT !.toLoad = @ \ {file},
                                  !.loaded = @ \cup {file},
                                  !.rewrittenImports = o.rewrittenImports,
                                  !.pending = @ \cup scanImports(file, o.contents)]]
        /\ last' = [NoCall EXCEPT !.hook = "onLoad", !.pass = p, !.file = file,
                                  !.result = o.loader]
  /\ UNCHANGED <<config, seenFiles, root, session, builds, history>>

\* the host reads a file itself when no onLoad callback takes it
HostLoad(p, file) ==
  /\ passes[p].status = "running"
  /\ file \in passes[p].toLoad
  /\ ~(passes[p].onLoad /\ filterMatches(filter, file))
  /\ passes' = [passes EXCEPT ![p] =
                  [@ EXCEPT !.toLoad = @ \ {file},
                            !.loaded = @ \cup {file},
                            !.pending = @ \cup scanImports(file, project[file])]]
  /\ last' = [NoCall EXCEPT !.hook = "hostLoad", !.pass = p, !.file = file]
  /\ UNCHANGED <<config, seenFiles, root, session, builds, history>>

(***************************************************************************)
(* End of a pass.                                                          *)
(***************************************************************************)
\* (mutant) the batch is added to the entry points of the snapshot
nextOptionsKeepsEntries(options, filespecs) ==
  [options EXCEPT !.entryPoints = @ \o filespecs]

\* { ...options, entryPoints: filespecs }
nextOptions(options, filespecs) == [options EXCEPT !.entryPoints = filespecs]

\* (mutant) onEnd starts a build whatever the batch holds
startsBuildAlways(filespecs) == TRUE

\* whether onEnd starts a further build
startsBuild(filespecs) == Len(filespecs) > 0

\* (mutant) the build is started and not awaited
buildNotAwaited(ps, p) == TRUE

\* `await esbuild.build(...)`: onEnd goes on once the build it started settled
buildSettled(ps, p) == ps[p + 1].status = "done"

\* build.onEnd: the host calls it when all resolution and loading of the pass
\* is done; with a non-empty batch it starts the next build and awaits it
childPass(s) ==
  IF s.err # NoError THEN [s.pass EXCEPT !.status = "done", !.errors = {s.err}]
  ELSE s.pass

OnEnd(p) ==
  /\ passes[p].status = "running"
  /\ passes[p].pending = {} /\ passes[p].toLoad = {}
  /\ IF startsBuild(passes[p].filespecs)
       THEN /\ Len(passes) < MaxPasses
            /\ passes' = Append([passes EXCEPT ![p].status = "awaiting"],
                           childPass(setup(nextOptions(passes[p].options,
                                                       passes[p].filespecs),
                                           transformImportExtensions,
                                           numLevelsInputPathToDrop)))
       ELSE passes' = [passes EXCEPT ![p].status = "done"]
  /\ last' = [NoCall EXCEPT !.hook = "onEnd", !.pass = p,
                            !.result = IF startsBuild(passes[p].filespecs)
                                         THEN "build" ELSE "undefined"]
  /\ UNCHANGED <<config, seenFiles, root, session, builds, history>>

\* the awaited build settled: onEnd returns (or rethrows), the pass is complete
OnEndReturn(p) ==
  /\ passes[p].status = "awaiting"
  /\ buildSettled(passes, p)
  /\ passes' = [passes EXCEPT ![p] =
                  [@ EXCEPT !.status = "done",
                            !.errors = @ \cup passes[p + 1].errors]]
  /\ last' = [NoCall EXCEPT !.hook = "onEndReturn", !.pass = p]
  /\ UNCHANGED <<config, seenFiles, root, session, builds, history>>

\* the FileSpecs of a session: the entry points of its build invocations and
\* the batches its passes collected
sessionFileSpecs(ps) ==
  UNION {{ps[p].entryPoints[i] : i \in 1..Len(ps[p].entryPoints)}
           \cup {ps[p].filespecs[i] : i \in 1..Len(ps[p].filespecs)} :
         p \in 1..Len(ps)}

\* the promise of the top-level esbuild.build settles
BuildSettles ==
  /\ session = "building"
  /\ passes[1].status = "done"
  /\ history' = Append(history, sessionFileSpecs(passes))
  /\ session' = IF passes[1].errors = {} THEN "resolved" ELSE "rejected"
  /\ last' = [NoCall EXCEPT !.hook = "settle", !.pass = 1]
  /\ UNCHANGED <<config, seenFiles, root, builds, passes>>

Requests ==
  UNION {passes[p].pending : p \in 1..Len(passes)}
Loads ==
  UNION {passes[p].toLoad : p \in 1..Len(passes)}

Next ==
  \/ Build
  \/ \E p \in 1..Len(passes) : \E req \in Requests : OnResolve(p, req)
  \/ \E p \in 1..Len(passes) : \E req \in Requests : HostResolve(p, req)
  \/ \E p \in 1..Len(passes) : \E file \in Loads : OnLoad(p, file)
  \/ \E p \in 1..Len(passes) : \E file \in Loads : HostLoad(p, file)
  \/ \E p \in 1..Len(passes) : OnEnd(p)
  \/ \E p \in 1..Len(passes) : OnEndReturn(p)
  \/ BuildSettles

Spec == Init /\ [][Next]_vars

(***************************************************************************)
(* reducePathLeft on its own: the path and the count are drawn at the      *)
(* start, the one step is the call.                                        *)
(***************************************************************************)
\* the segments a, b, .h, . and ..
ReduceSegments == {Nm("a"), Nm("b"), Fl("", "h"), Dot, DotDot}

\* relative paths of up to MaxSegments segments, and the same below "/"
ReducePaths ==
  LET bodies == UNION {[1..n -> ReduceSegments] : n \in 1..MaxSegments}
  IN bodies \cup {<<EmptySeg>> \o b : b \in bodies}

ReduceInit ==
  /\ project = ProjectPlain
  /\ initialOptions = [entryPoints |-> <<StringEntry(IndexJs)>>,
                       outExtension |-> "", outdir |-> "dist", bundle |-> TRUE]
  /\ filter = "all"
  /\ numLevelsInputPathToDrop \in -2..MaxDrop
  /\ transformImportExtensions = FALSE
  /\ seenFiles = {}
  /\ root = Undefined
  /\ session = "pure"
  /\ builds = 0
  /\ passes = <<>>
  /\ history = <<>>
  /\ \E path \in ReducePaths : last = [NoCall EXCEPT !.hook = "input", !.args = path]

\* reducePathLeft(path, numSegments): `file` is the path returned
ReduceCall ==
  /\ last.hook = "input"
  /\ \E r \in {reducePathLeft(last.args, numLevelsInputPathToDrop)} :
        last' = [last EXCEPT !.hook = "reducePathLeft",
                             !.result = IF r.err # NoError THEN "throw" ELSE "return",
                             !.error = r.err,
                             !.file = r.value]
  /\ UNCHANGED <<config, seenFiles, root, session, builds, passes, history>>

ReduceSpec == ReduceInit /\ [][ReduceCall]_vars

\* the sessions of Spec and, beside them, the calls of ReduceSpec
SessionOrReduceInit == Init \/ ReduceInit
SessionOrReduceNext == Next \/ ReduceCall
SessionOrReduceSpec == SessionOrReduceInit /\ [][SessionOrReduceNext]_vars

\* Some step is due: a top-level build call is still to be made, a request
\* or a load of a running pass waits for its callback, a running pass has all
\* its answers and its onEnd is due, an awaited build has settled, or the
\* finished first pass has yet to settle the promise. It is ENABLED <<Next>>_vars
\* written out (StepsAreDue, DueStepsExist).
CanStep ==
  \/ session = "constructed"
  \/ session \in {"resolved", "rejected"} /\ builds < MaxBuilds
  \/ session = "building" /\ passes[1].status = "done"
  \/ \E p \in 1..Len(passes) :
       \/ /\ passes[p].status = "running"
          /\ \/ passes[p].pending # {}
             \/ passes[p].toLoad # {}
             \/ ~startsBuild(passes[p].filespecs)
             \/ Len(passes) < MaxPasses
       \/ passes[p].status = "awaiting" /\ buildSettled(passes, p)

\* every step is taken from a state in which a step is due
StepsAreDue == [][CanStep]_vars

\* Next with a stuttering step where no step is due: it has a successor in
\* every state exactly if a step that is due can always be taken
DueStepsExist == Init /\ [][Next \/ (~CanStep /\ UNCHANGED vars)]_vars

\* the host keeps working: a pending request, load or callback is run at last.
\* This is WF_vars(Next) with its ENABLED written as CanStep.
FairSpec == Spec /\ ([]<>(~CanStep) \/ []<><<Next>>_vars)

(***************************************************************************)
(* What the claims speak about.                                            *)
(***************************************************************************)
\* the module identity a FileSpec stands for: its `in` against the root
identityOf(spec) ==
  IF startsWithSep(spec.in) THEN normalize(spec.in) ELSE join(Cwd, spec.in)

\* the places (pass, index) of the FileSpecs handed to a build invocation: the
\* one setup installs for the initial entry point and every batch onEnd passed on
Handed == {<<p, i>> \in (1..Len(passes)) \X (1..MaxPasses + 8) :
             i <= Len(passes[p].entryPoints)}

\* the places (pass, index) of the FileSpecs appended to a pending batch
Appended == {<<p, i>> \in (1..Len(passes)) \X (1..MaxPasses + 8) :
               i <= Len(passes[p].filespecs)}

\* how often an identity was appended to a pending batch
Appends(id) ==
  Cardinality({x \in Appended : identityOf(passes[x[1]].filespecs[x[2]]) = id})

\* the files some build invocation had as an entry point
BuiltFiles ==
  {hostFile(DOMAIN project, Cwd, passes[x[1]].entryPoints[x[2]].in) : x \in Handed}

\* a static or a dynamic import
IsImportKind(kind) == kind \in {"import-statement", "dynamic-import"}

\* the files a file imports statically or dynamically
importsOf(file) ==
  {hostFile(DOMAIN project, dirname(file), i.path) :
     i \in {j \in project[file] : IsImportKind(j.kind)}} \ {Undefined}

\* the files reachable from a set of files through such imports
RECURSIVE reachable(_)
reachable(files) ==
  IF UNION {importsOf(f) : f \in files} \subseteq files THEN files
  ELSE reachable(files \cup UNION {importsOf(f) : f \in files})

EntryFile == hostFile(DOMAIN project, Cwd, initialOptions.entryPoints[1].in)

Settled == session \in {"resolved", "rejected"}

\* the step is a call of the onResolve callback (each request is answered once)
IsOnResolveStep == last'.hook = "onResolve" /\ last' # last

(***************************************************************************)
(* C1: across a session no module identity appears in more than one        *)
(* FileSpec handed to a build invocation (the initial entry point's        *)
(* included): no module is built as an entry point twice.                  *)
(***************************************************************************)
C1_NoIdentityBuiltTwice ==
  \A x \in Handed : \A y \in Handed :
    x # y => identityOf(passes[x[1]].entryPoints[x[2]])
               # identityOf(passes[y[1]].entryPoints[y[2]])

(***************************************************************************)
(* C2: when the top-level invocation returns without error and the filter  *)
(* matches every import, every module reachable from the initial entry     *)
(* point through static or dynamic imports was the entry point of a pass.  *)
(***************************************************************************)
C2_ReachableAllBuilt ==
  (session = "resolved" /\ filter = "all")
    => reachable({EntryFile}) \subseteq BuiltFiles

(***************************************************************************)
(* C3: for every import graph, cycles included, the chain of build         *)
(* invocations is finite: a pass ends with an empty batch, starts no       *)
(* build, every pass completes and the top-level invocation returns.       *)
(***************************************************************************)
C3_Terminates ==
  <>(/\ Settled
     /\ passes # <<>> =>
          /\ \A p \in 1..Len(passes) : passes[p].status = "done"
          /\ ~startsBuild(passes[Len(passes)].filespecs))

\* a session whose import cycle led back to the initial entry point returned
C3_Witness ==
  /\ session = "resolved"
  /\ \E x \in Handed :
       /\ x[1] >= 2
       /\ identityOf(passes[x[1]].entryPoints[x[2]])
            = identityOf(passes[1].entryPoints[1])

(***************************************************************************)
(* C4: a static or dynamic import resolution that does not fail returns    *)
(* external: true, seen before or not; an entry-point resolution returns   *)
(* no override, appends no FileSpec and inserts nothing into the registry. *)
(***************************************************************************)
C4_ExternalOrNoOverride ==
  [][IsOnResolveStep =>
       /\ (IsImportKind(last'.args.kind) /\ last'.result # "throw")
            => last'.result = "external"
       /\ last'.args.kind = "entry-point"
            => /\ last'.result = "undefined"
               /\ seenFiles' = seenFiles
               /\ passes'[last'.pass].filespecs = passes[last'.pass].filespecs]_vars

\* an import of a module that was in the registry already was made external
C4_Witness ==
  /\ last.hook = "onResolve"
  /\ IsImportKind(last.args.kind)
  /\ ~last.fresh
  /\ last.file \in seenFiles
  /\ last.result = "external"

(***************************************************************************)
(* C5: every FileSpec of the session, the initial entry point's included,  *)
(* has in = "./" + root-relative path and out = reduce(directory of the    *)
(* root-relative input, drop-count) joined with the base name without      *)
(* extension; ./src/index with drop-count 1 importing ./util and           *)
(* ./lib/helpers gives exactly index, util and lib/helpers.                *)
(***************************************************************************)
RootRelative(spec) == relative(Cwd, Cwd, identityOf(spec))

AsClaimed(spec) ==
  /\ spec.in = <<Dot>> \o RootRelative(spec)
  /\ spec.out = join(reducePathLeft(dirname(RootRelative(spec)),
                                    numLevelsInputPathToDrop).value,
                     <<parseName(RootRelative(spec))>>)

ScenarioFileSpecs ==
  { FileSpec(<<Dot, Nm("src"), Nm("index")>>, <<Nm("index")>>),
    FileSpec(<<Dot, Nm("src"), Nm("util")>>, <<Nm("util")>>),
    FileSpec(<<Dot, Nm("src"), Nm("lib"), Nm("helpers")>>,
             <<Nm("lib"), Nm("helpers")>>) }

C5_FileSpecsAsClaimed ==
  /\ \A x \in Handed : AsClaimed(passes[x[1]].entryPoints[x[2]])
  /\ \A x \in Appended : AsClaimed(passes[x[1]].filespecs[x[2]])
  /\ (/\ session = "resolved"
      /\ project = ProjectPlain
      /\ initialOptions.entryPoints[1].in = <<Dot, Nm("src"), Nm("index")>>
      /\ numLevelsInputPathToDrop = 1)
       => {passes[x[1]].entryPoints[x[2]] : x \in Handed} = ScenarioFileSpecs

(***************************************************************************)
(* C6: a resolution event of another kind than entry-point, static import  *)
(* or dynamic import fails with the unsupported-kind error, returns no     *)
(* external result and leaves root, registry, batch and rewrite map as     *)
(* they were.                                                              *)
(***************************************************************************)
C6_UnsupportedKindFails ==
  [][(IsOnResolveStep /\ last'.args.kind # "entry-point"
        /\ ~IsImportKind(last'.args.kind)) =>
       /\ last'.result = "throw"
       /\ last'.error = KindError
       /\ root' = root
       /\ seenFiles' = seenFiles
       /\ passes'[last'.pass].filespecs = passes[last'.pass].filespecs
       /\ passes'[last'.pass].rewrittenImports
            = passes[last'.pass].rewrittenImports]_vars

\* a require() was resolved, and failed, in a session that had a registry
C6_Witness ==
  /\ last.hook = "onResolve"
  /\ last.args.kind = "require-call"
  /\ last.error = KindError
  /\ seenFiles # {}

(***************************************************************************)
(* C7: every static or dynamic import resolution that occurs while no root *)
(* is captured fails with the root-undetermined error, the first one for a *)
(* module identity and every repeated one.                                 *)
(***************************************************************************)
C7_NoRootAlwaysFails ==
  (last.hook = "onResolve" /\ IsImportKind(last.args.kind) /\ root = Undefined)
    => (last.result = "throw" /\ last.error = RootError)

(***************************************************************************)
(* C8: under every order of the resolution calls of a pass, and across     *)
(* the passes, no module identity is appended to pending batches twice,    *)
(* and one whose first resolution completed is appended exactly once,      *)
(* however many importers resolve it.                                      *)
(***************************************************************************)
C8_AppendedOnce ==
  /\ \A x \in Appended : Appends(identityOf(passes[x[1]].filespecs[x[2]])) = 1
  /\ \A p \in 1..Len(passes) : \A d \in passes[p].discovered :
       Appends(d.file) = 1
  /\ \A p \in 1..Len(passes) : \A r \in passes[p].resolved :
       (\E q \in 1..Len(passes) : \E o \in passes[q].resolved :
          o.file = r.file /\ o.importer # r.importer)
         => Appends(r.file) = 1

\* a second importer resolved a module another importer had scheduled
C8_Witness ==
  /\ last.hook = "onResolve"
  /\ last.result = "external"
  /\ ~last.fresh
  /\ \E p \in 1..Len(passes) : \E d \in passes[p].discovered :
       d.file = last.file /\ d.importer # last.args.importer
  /\ Appends(last.file) = 1

(***************************************************************************)
(* C9: a pass that discovered modules starts exactly one build at its end, *)
(* a pass that discovered none starts none; the options of that build are  *)
(* the snapshot taken at setup in every field but the entry points, which  *)
(* are exactly the FileSpecs of the modules first discovered in that pass. *)
(***************************************************************************)
C9_OneBuildOfTheBatch ==
  \A p \in 1..Len(passes) :
    /\ passes[p].status # "running"
         => (p < Len(passes) <=> passes[p].discovered # {})
    /\ p < Len(passes) =>
         /\ passes[p + 1].options
              = [passes[p].options EXCEPT !.entryPoints = passes[p].filespecs]
         /\ passes[p + 1].options
              = [initialOptions EXCEPT !.entryPoints = passes[p].filespecs]
         /\ passes[p + 1].entryPoints = passes[p].filespecs
         /\ Len(passes[p].filespecs) = Cardinality(passes[p].discovered)
         /\ {identityOf(passes[p + 1].entryPoints[i]) :
               i \in 1..Len(passes[p + 1].entryPoints)}
              = {d.file : d \in passes[p].discovered}

\* two builds were started in turn, and a pass without discoveries ended
C9_Witness ==
  /\ Len(passes) >= 3
  /\ passes[Len(passes)].status = "done"
  /\ passes[Len(passes)].discovered = {}
  /\ Cardinality(passes[1].discovered) >= 2

(***************************************************************************)
(* C10: passes never overlap: at most one pass resolves and loads at a     *)
(* time, a recursive pass exists only once the resolution of its enclosing *)
(* pass has finished, and a pass is complete only after every deeper pass  *)
(* is.                                                                     *)
(***************************************************************************)
C10_PassesSequential ==
  /\ Cardinality({p \in 1..Len(passes) : passes[p].status = "running"}) <= 1
  /\ \A p \in 1..Len(passes) : p < Len(passes) =>
       /\ passes[p].status # "running"
       /\ passes[p].pending = {} /\ passes[p].toLoad = {}
       /\ passes[p].status = "done"
            => \A q \in p..Len(passes) : passes[q].status = "done"
  /\ Settled => \A p \in 1..Len(passes) : passes[p].status = "done"

\* the innermost of three nested passes resolves while two passes await
C10_Witness ==
  /\ Len(passes) = 3
  /\ passes[1].status = "awaiting" /\ passes[2].status = "awaiting"
  /\ passes[3].status = "running" /\ passes[3].loaded # {}

MarkerLength(path) == IF path[1] \in {EmptySeg, Dot, DotDot} THEN 1 ELSE 0

ReduceAsClaimed(path, n) ==
  SubSeq(path, 1, MarkerLength(path))
    \o SubSeq(path, MarkerLength(path) + n + 1, Len(path))

C12_ReduceAsClaimed ==
  (/\ last.hook = "reducePathLeft"
   /\ numLevelsInputPathToDrop >= 0
   /\ Len(last.args) - MarkerLength(last.args) >= numLevelsInputPathToDrop + 1)
    => /\ last.result = "return"
       /\ last.file = ReduceAsClaimed(last.args, numLevelsInputPathToDrop)

(***************************************************************************)
(* C13: sessions run on the same import graph with the same configuration  *)
(* and root end with the same set of FileSpecs, whatever the order of the  *)
(* resolution events; the FileSpec appended for a module is a function of  *)
(* its identity, the root and the drop-count, whichever importer or pass   *)
(* discovered it.                                                          *)
(***************************************************************************)
C13_SameFileSpecs ==
  /\ \A i \in DOMAIN history : \A j \in DOMAIN history : history[i] = history[j]
  /\ \A x \in Appended : AsClaimed(passes[x[1]].filespecs[x[2]])

(***************************************************************************)
(* C14: two FileSpecs of a session that stand for different module         *)
(* identities have different out values.                                   *)
(***************************************************************************)
C14_DistinctOutputs ==
  \A a \in sessionFileSpecs(passes) : \A b \in sessionFileSpecs(passes) :
    identityOf(a) # identityOf(b) => a.out # b.out

(***************************************************************************)
(* C15: with extension rewriting on, a resolution event for a specifier    *)
(* the onLoad callback wrote into the importer while loading it computes   *)
(* the module identity the original specifier of the importer's source     *)
(* names.                                                                  *)
(***************************************************************************)
\* the imports of the request's importer that onLoad rewrote to its path, in
\* the pass the step belongs to
RewrittenFrom(pass, req) ==
  IF req.importer \in DOMAIN project
       /\ pass.onLoad /\ filterMatches(filter, req.importer)
    THEN {i \in project[req.importer] :
            /\ matchesImportPattern(i)
            /\ replaceJs(i.path, pass.options.outExtension) = req.path}
    ELSE {}

C15_RewrittenResolvesAsOriginal ==
  [][(IsOnResolveStep /\ IsImportKind(last'.args.kind)) =>
       \A i \in RewrittenFrom(passes[last'.pass], last'.args) :
         last'.file = join(last'.args.resolveDir, i.path)]_vars

\* ./util.mjs, written by onLoad for ./util.js, was resolved to util.js
C15_Witness ==
  /\ last.hook = "onResolve"
  /\ project = ProjectCycle
  /\ last.args.path = <<Dot, Fl("util", "mjs")>>
  /\ RewrittenFrom(passes[last.pass], last.args) # {}
  /\ last.file = UtilJs
  /\ last.result = "external"

(***************************************************************************)
(* C16: a further top-level invocation with the same configuration and     *)
(* plugin starts with an empty registry and no root, and schedules every   *)
(* module it reaches again.                                                *)
(***************************************************************************)
C16_StartsAfresh ==
  /\ (builds >= 2 /\ last.hook = "setup") => (seenFiles = {} /\ root = Undefined)
  /\ (builds >= 2 /\ last.hook = "onResolve" /\ last.result = "external")
       => Appends(last.file) = 1

C18_NegativeCountFails ==
  numLevelsInputPathToDrop < 0 =>
    /\ last.hook = "reducePathLeft"
         => (last.result = "throw" /\ last.error = NegativeError
               /\ last.file = Undefined)
    /\ (last.hook = "setup" /\ isSingleString(initialOptions.entryPoints))
         => (last.result = "throw" /\ last.error = NegativeError
               /\ session = "rejected" /\ passes = <<>>)
    /\ (last.hook = "onResolve" /\ last.fresh /\ root # Undefined)
         => (last.result = "throw" /\ last.error = NegativeError)
    /\ sessionFileSpecs(passes)
         \subseteq {e \in {initialOptions.entryPoints[1]} : ~e.isString}
    /\ Len(passes) <= 1
    /\ (Settled /\ \E p \in 1..Len(passes) : NegativeError \in passes[p].errors)
         => session = "rejected"

\* with a negative count, the first resolution of a session whose entry point
\* was given as { in, out } threw when it computed the FileSpec
C18_Witness ==
  /\ numLevelsInputPathToDrop < 0
  /\ last.hook = "onResolve" /\ last.fresh
  /\ last.error = NegativeError /\ last.file \in seenFiles

(***************************************************************************)
(* C19: in every state of a (first) session, also after a resolution event *)
(* failed, a module identity is in the registry exactly if one FileSpec    *)
(* for it was appended to a pending batch; a failed resolution event       *)
(* leaves nothing in the registry.                                         *)
(***************************************************************************)
C19_RegistryMatchesFileSpecs ==
  builds = 1 =>
    /\ \A f \in seenFiles : Appends(f) = 1
    /\ \A x \in Appended : identityOf(passes[x[1]].filespecs[x[2]]) \in seenFiles
    /\ (last.hook = "onResolve" /\ last.result = "throw" /\ last.file # Undefined)
         => last.file \notin seenFiles

(***************************************************************************)
(* C20: with extension rewriting on, a specifier that stands in the        *)
(* importer's source as the event carries it (onLoad did not write it) is  *)
(* resolved to the identity it names as written, also when onLoad wrote    *)
(* the same text for another specifier of that importer.                   *)
(***************************************************************************)
\* the imports of the request's importer that carry its path in the source
\* and were left as they are by onLoad
WrittenAs(pass, req) ==
  IF req.importer \in DOMAIN project
    THEN {i \in project[req.importer] :
            /\ i.path = req.path /\ i.kind = req.kind
            /\ ~(pass.onLoad /\ filterMatches(filter, req.importer)
                   /\ matchesImportPattern(i))}
    ELSE {}

C20_UnmodifiedResolvesAsWritten ==
  (/\ last.hook = "onResolve"
   /\ IsImportKind(last.args.kind)
   /\ WrittenAs(passes[last.pass], last.args) # {})
    => last.file = join(last.args.resolveDir, last.args.path)

====
